---- MODULE Spec2Model ----
(***************************************************************************)
(* A model of the roulette engine of src/src/roulette.rs: the geometry     *)
(* validator (Roulette::validate_bet_option), the batch validation         *)
(* (Roulette::validate_bets), the payout evaluator                         *)
(* (RouletteEvaluator::calculate_winnings) and the spin engine             *)
(* (Roulette::spin) with its history.                                      *)
(*                                                                         *)
(* Numbers are u8.  A u8 subtraction whose result would be negative panics *)
(* in a build with overflow checks (the debug profile) and wraps modulo    *)
(* 2^8 in a build without them (the release profile); the build is the     *)
(* variable overflow_checks, chosen once in Init.  A boolean expression of *)
(* the source is evaluated to "T", "F" or "P" (panicked), with the         *)
(* source's short-circuit order.                                           *)
(***************************************************************************)
EXTENDS Integers, Sequences, FiniteSets, TLC

VARIABLES
    overflow_checks, \* the build: TRUE panics on u8 overflow, FALSE wraps
    history,         \* Roulette.history
    min_bet_size,    \* Roulette.min_bet_size
    bets,            \* the argument of the last spin call
    outcome,         \* of the last spin call: "none", "ok", "err" or "panic"
    number,          \* the winning number the last spin returned (Ok)
    results,         \* the results the last spin returned (Ok)
    errors,          \* the errors the last spin returned (Err)
    returned,        \* the caller's log of the numbers successful spins returned
    g_bet,           \* the bet type handed to validate_bet_option
    g_verdict,       \* what validate_bet_option answered: "none", "T", "F", "P"
    v_bets,          \* the batch handed to validate_bets
    v_result,        \* what validate_bets did: "none", "ok", "err" or "panic"
    e_number,        \* the winning number handed to calculate_winnings
    e_colour,        \* the colour handed to calculate_winnings
    e_bets,          \* the bets handed to calculate_winnings
    e_status,        \* what calculate_winnings did: "none", "ok" or "panic"
    e_results        \* the results calculate_winnings returned

vars == <<overflow_checks, history, min_bet_size, bets, outcome, number,
          results, errors, returned, g_bet, g_verdict, v_bets, v_result,
          e_number, e_colour, e_bets, e_status, e_results>>

engine_vars == <<history, min_bet_size, bets, outcome, number, results,
                 errors, returned>>

geometry_vars == <<g_bet, g_verdict>>

validate_vars == <<v_bets, v_result>>

eval_vars == <<e_number, e_colour, e_bets, e_status, e_results>>

\* calculate_winnings has not been called on its own
EvalIdle ==
    /\ e_number = 0
    /\ e_colour = 0
    /\ e_bets = <<>>
    /\ e_status = "idle"
    /\ e_results = <<>>

----------------------------------------------------------------------------
(* Bounds and program constants *)

U8Max == 255

MaxNum == 40

TailLen == 2

MaxDelta == 3

MaxGap == 7

U8 == 0..U8Max

\* the u8 values the longer geometry inputs are built from: the table, a few numbers
\* above it, and the top of the u8 range
NumDom == (0..MaxNum) \cup ((U8Max - TailLen)..U8Max)

Deltas == (0 - MaxDelta)..MaxDelta

Gaps == (0 - MaxGap)..MaxGap

DblDeltas == {0 - 1, 1, 2}

Wrap8(x) == x % (U8Max + 1)

----------------------------------------------------------------------------
(* Three-valued evaluation of the source's boolean expressions *)

B3(b) == IF b THEN "T" ELSE "F"

\* a && b: b is evaluated only when a is true
And3(a, b) == IF a = "T" THEN b ELSE a

\* a || b: b is evaluated only when a is false
Or3(a, b) == IF a = "F" THEN b ELSE a

\* the u8 expression  a - b == k
SubEq(a, b, k, chk) ==
    IF a >= b THEN B3(a - b = k)
    ELSE IF chk THEN "P"
    ELSE B3(Wrap8(a - b) = k)

----------------------------------------------------------------------------
(* Roulette::validate_bet_option, one operator per match arm *)

validate_straight(v, chk) == B3(v[1] <= 36)

\* the middle rule stopping one number early: v[0] <= 32
validate_split_short(v, chk) ==
    LET v0 == v[1]
        v1 == v[2]
        range == B3(v0 # v1 /\ (v0 <= 35 /\ v1 <= 36) /\ v1 > v0)
        zero  == B3(v0 = 0 /\ (v1 = 1 \/ v1 = 2 \/ v1 = 3))
        right == Or3(And3(B3(v1 % 3 = 0), SubEq(v1, v0, 1, chk)),
                     SubEq(v1, v0, 3, chk))
        left  == Or3(And3(B3(v0 % 3 = 1), SubEq(v1, v0, 1, chk)),
                     SubEq(v1, v0, 3, chk))
        mid   == And3(B3(v0 > 0 /\ v0 <= 32), Or3(right, left))
        bottom == And3(B3(v0 >= 34), SubEq(v1, v0, 1, chk))
    IN  Or3(Or3(And3(range, zero), mid), bottom)

validate_split(v, chk) ==
    LET v0 == v[1]
        v1 == v[2]
        range == B3(v0 # v1 /\ (v0 <= 35 /\ v1 <= 36) /\ v1 > v0)
        zero  == B3(v0 = 0 /\ (v1 = 1 \/ v1 = 2 \/ v1 = 3))
        right == Or3(And3(B3(v1 % 3 = 0), SubEq(v1, v0, 1, chk)),
                     SubEq(v1, v0, 3, chk))
        left  == Or3(And3(B3(v0 % 3 = 1), SubEq(v1, v0, 1, chk)),
                     SubEq(v1, v0, 3, chk))
        mid   == And3(B3(v0 > 0 /\ v0 <= 33), Or3(right, left))
        bottom == And3(B3(v0 >= 34), SubEq(v1, v0, 1, chk))
    IN  \* && binds tighter than ||: (range && zero) || mid || bottom
        Or3(Or3(And3(range, zero), mid), bottom)

\* the row test of an earlier draft: v[0] % 3 == 0
validate_street_draft(v, chk) ==
    And3(B3(v[1] > 0),
    And3(B3(v[1] <= 34),
    And3(B3(v[1] % 3 = 0),
    And3(SubEq(v[2], v[1], 1, chk),
         SubEq(v[3], v[2], 1, chk)))))

validate_street(v, chk) ==
    And3(B3(v[1] > 0),
    And3(B3(v[1] <= 34),
    And3(B3((v[1] - 1) % 3 = 0),
    And3(SubEq(v[2], v[1], 1, chk),
         SubEq(v[3], v[2], 1, chk)))))

\* a basket rule that knows only the first basket, [0,1,2]
validate_basket_first(v, chk) ==
    B3(v[1] = 0 /\ v[2] = 1 /\ v[3] = 2)

validate_basket(v, chk) ==
    B3(v[1] = 0 /\ ((v[2] = 1 /\ v[3] = 2) \/ (v[2] = 2 /\ v[3] = 3)))

validate_topline(v, chk) ==
    B3(v[1] = 0 /\ v[2] = 1 /\ v[3] = 2 /\ v[4] = 3)

validate_corner(v, chk) ==
    And3(B3(v[1] > 0),
    And3(B3(v[1] % 3 # 0),
    And3(SubEq(v[2], v[1], 1, chk),
    And3(SubEq(v[4], v[3], 1, chk),
    And3(SubEq(v[4], v[2], 3, chk),
         SubEq(v[3], v[1], 3, chk))))))

validate_doubleline(v, chk) ==
    LET slice1 == SubSeq(v, 1, 3)
        slice2 == SubSeq(v, 4, 6)
    IN  And3(validate_street(slice1, chk), validate_street(slice2, chk))

validate_dozens(v, chk) == B3(v[1] >= 1 /\ v[1] <= 3)

validate_columns(v, chk) == B3(v[1] >= 1 /\ v[1] <= 3)

validate_selector(v, chk) == B3(v[1] <= 1)

validate_bet_option(bt, chk) ==
    CASE bt.cat = "Straight"   -> validate_straight(bt.v, chk)
      [] bt.cat = "Split"      -> validate_split(bt.v, chk)
      [] bt.cat = "Street"     -> validate_street(bt.v, chk)
      [] bt.cat = "Basket"     -> validate_basket(bt.v, chk)
      [] bt.cat = "Topline"    -> validate_topline(bt.v, chk)
      [] bt.cat = "Corner"     -> validate_corner(bt.v, chk)
      [] bt.cat = "Doubleline" -> validate_doubleline(bt.v, chk)
      [] bt.cat = "Dozens"     -> validate_dozens(bt.v, chk)
      [] bt.cat = "Columns"    -> validate_columns(bt.v, chk)
      [] bt.cat = "EvenOdd"    -> validate_selector(bt.v, chk)
      [] bt.cat = "Highlow"    -> validate_selector(bt.v, chk)
      [] bt.cat = "Redblack"   -> validate_selector(bt.v, chk)

----------------------------------------------------------------------------
(* u64 values (wagers, payouts, the minimum-bet floor) as four 16-bit limbs, *)
(* least significant first                                                 *)

LimbBase == 2 ^ 16

\* the u64 of a small natural number
U64(n) == <<n % LimbBase, (n \div LimbBase) % LimbBase, 0, 0>>

\* u64::MAX
U64Max == <<LimbBase - 1, LimbBase - 1, LimbBase - 1, LimbBase - 1>>

\* the u64 expression a * m for a small m: the product modulo 2^64 and
\* whether the exact product exceeds u64::MAX
Mul64(a, m) ==
    LET c1 == a[1] * m
        c2 == a[2] * m + (c1 \div LimbBase)
        c3 == a[3] * m + (c2 \div LimbBase)
        c4 == a[4] * m + (c3 \div LimbBase)
    IN  [value |-> <<c1 % LimbBase, c2 % LimbBase, c3 % LimbBase,
                     c4 % LimbBase>>,
         overflow |-> (c4 \div LimbBase) > 0]

\* the u64 expression a <= b
Le64(a, b) ==
    \/ a = b
    \/ \E i \in 1..4 : a[i] < b[i] /\ \A j \in (i + 1)..4 : a[j] = b[j]

Lt64(a, b) == a # b /\ Le64(a, b)

\* the bitwise and of two naturals
RECURSIVE BitAnd(_, _)
BitAnd(a, b) ==
    IF a = 0 \/ b = 0 THEN 0
    ELSE (a % 2) * (b % 2) + 2 * BitAnd(a \div 2, b \div 2)

\* the u64 expression a & b
BitAnd64(a, b) == [i \in 1..4 |-> BitAnd(a[i], b[i])]

----------------------------------------------------------------------------
(* Bets *)

BetType(c, v) == [cat |-> c, v |-> v]

\* RouletteBet::new
RouletteBet(bt, w) == [bet_type |-> bt, wager |-> w]

multiplier(bt) ==
    CASE bt.cat = "Straight"   -> 36
      [] bt.cat = "Split"      -> 18
      [] bt.cat = "Street"     -> 12
      [] bt.cat = "Basket"     -> 12
      [] bt.cat = "Topline"    -> 9
      [] bt.cat = "Corner"     -> 9
      [] bt.cat = "Doubleline" -> 6
      [] bt.cat = "Dozens"     -> 3
      [] bt.cat = "Columns"    -> 3
      [] bt.cat = "EvenOdd"    -> 2
      [] bt.cat = "Highlow"    -> 2
      [] bt.cat = "Redblack"   -> 2

\* RouletteBet::win_value: self.wager * multiplier; an overflowing product
\* panics with overflow checks and wraps without
win_value(bet, chk) ==
    LET p == Mul64(bet.wager, multiplier(bet.bet_type))
    IN  [panic |-> chk /\ p.overflow, value |-> p.value]

\* RouletteBetResult::new
RouletteBetResult(bet, win) == [bet |-> bet, win |-> win]

\* v.contains(&winning_number)
contains(v, n) == \E i \in 1..Len(v) : v[i] = n

----------------------------------------------------------------------------
(* RouletteEvaluator::calculate_winnings, for bets that passed validation *)

\* the Dozens closure: start = (v-1)*12+1 and start+12 are u8 expressions,
\* which panic with overflow checks and wrap without; the range
\* start..(start+12) excludes its upper end
dozens_wins(v, winning_number, chk) ==
    IF chk /\ (v < 1 \/ (v - 1) * 12 + 1 + 12 > U8Max)
    THEN "P"
    ELSE LET start == Wrap8(Wrap8(Wrap8(v - 1) * 12) + 1)
             end   == Wrap8(start + 12)
         IN  B3(\E n \in start..(end - 1) : winning_number = n)

RECURSIVE columns_loop(_, _)
columns_loop(n, winning_number) ==
    IF n <= 36
    THEN IF winning_number = n THEN TRUE
         ELSE columns_loop(n + 3, winning_number)
    ELSE FALSE

columns_wins(v, winning_number) == columns_loop(v, winning_number)

\* the closure handed to calc_win: "T", "F" or "P" (panicked)
bet_wins(bt, winning_number, colour, chk) ==
    CASE bt.cat = "Straight" -> B3(bt.v[1] = winning_number)
      [] bt.cat = "Dozens"   -> dozens_wins(bt.v[1], winning_number, chk)
      [] bt.cat = "Columns"  -> B3(columns_wins(bt.v[1], winning_number))
      [] bt.cat = "EvenOdd"  -> B3((winning_number % 2) = (bt.v[1] % 2))
      [] bt.cat = "Highlow"  ->
            B3(\/ (bt.v[1] = 0 /\ winning_number >= 1 /\ winning_number <= 18)
               \/ (bt.v[1] = 1 /\ winning_number >= 19 /\ winning_number <= 36))
      [] bt.cat = "Redblack" -> B3(bt.v[1] = colour)
      [] OTHER               -> B3(contains(bt.v, winning_number))

\* win_value is called only for a winning bet; a panic of the closure or of
\* win_value is a panic of calc_win
calc_win(bet, f, chk) ==
    IF f = "P"
    THEN [panic |-> TRUE, result |-> RouletteBetResult(bet, U64(0))]
    ELSE IF f = "T"
    THEN LET w == win_value(bet, chk)
         IN  [panic |-> w.panic, result |-> RouletteBetResult(bet, w.value)]
    ELSE [panic |-> FALSE, result |-> RouletteBetResult(bet, U64(0))]

\* an evaluator that returns the results last bet first
calculate_winnings_reversed(winning_number, colour, bs, chk) ==
    LET r == [i \in 1..Len(bs) |->
                 calc_win(bs[Len(bs) + 1 - i],
                          bet_wins(bs[Len(bs) + 1 - i].bet_type,
                                   winning_number, colour, chk),
                          chk)]
    IN  [panic |-> \E i \in 1..Len(bs) : r[i].panic,
         results |-> [i \in 1..Len(bs) |-> r[i].result]]

\* the loop pushes one result per bet, in order; a panic of win_value ends it
calculate_winnings(winning_number, colour, bs, chk) ==
    LET r == [i \in 1..Len(bs) |->
                 calc_win(bs[i],
                          bet_wins(bs[i].bet_type, winning_number, colour,
                                   chk),
                          chk)]
    IN  [panic |-> \E i \in 1..Len(bs) : r[i].panic,
         results |-> [i \in 1..Len(bs) |-> r[i].result]]

get_number_colour(n) ==
    IF n \in {1, 3, 5, 7, 9, 12, 14, 16, 18, 19, 21, 23, 25, 27, 30, 32, 34, 36}
    THEN 0 ELSE 1

----------------------------------------------------------------------------
(* Roulette::validate_bets *)

min_bet_for_option(bt) == 1

\* a size check that wants the wager strictly above the minimum
validate_bet_size_strict(bet, floor) ==
    Lt64(BitAnd64(U64(min_bet_for_option(bet.bet_type)), floor), bet.wager)

\* & binds tighter than <=: (min_bet_for_option & min_bet_size) <= wager
validate_bet_size(bet, floor) ==
    Le64(BitAnd64(U64(min_bet_for_option(bet.bet_type)), floor), bet.wager)

InvalidBetOption(bet) == [kind |-> "InvalidBetOption", bet |-> bet]

MinBetNotSatisfied(bet, min) ==
    [kind |-> "MinBetNotSatisfied", bet |-> bet, min |-> min]

\* the loop over the bets from bet i on, errs being the errors pushed so far;
\* a panic of validate_bet_option ends the call
RECURSIVE validate_loop(_, _, _, _, _)
validate_loop(bs, i, errs, floor, chk) ==
    IF i > Len(bs) THEN [panic |-> FALSE, errors |-> errs]
    ELSE LET bet == bs[i]
             ok  == validate_bet_option(bet.bet_type, chk)
         IN  IF ok = "P" THEN [panic |-> TRUE, errors |-> errs]
             ELSE IF ok = "F"
             THEN validate_loop(bs, i + 1,
                      Append(errs, InvalidBetOption(bet)), floor, chk)
             ELSE IF ~validate_bet_size(bet, floor)
             THEN validate_loop(bs, i + 1,
                      Append(errs, MinBetNotSatisfied(bet,
                          Mul64(floor, min_bet_for_option(bet.bet_type)).value)),
                      floor, chk)
             ELSE validate_loop(bs, i + 1, errs, floor, chk)

\* a validation that stops at the first offending bet
validate_bets_failfast(bs, floor, chk) ==
    LET r == validate_loop(bs, 1, <<>>, floor, chk)
    IN  [panic |-> r.panic,
         errors |-> IF Len(r.errors) > 1 THEN <<r.errors[1]>> ELSE r.errors]

validate_bets(bs, floor, chk) == validate_loop(bs, 1, <<>>, floor, chk)

----------------------------------------------------------------------------
(* Roulette::new and Roulette::spin *)

MaxSpins == 2

NoNumber == 0 - 1

\* rng.gen_range(low, high): low inclusive, high exclusive
gen_range(low, high) == low..(high - 1)

Straight1  == RouletteBet(BetType("Straight", <<1>>), U64(10))
Red        == RouletteBet(BetType("Redblack", <<0>>), U64(10))
Black      == RouletteBet(BetType("Redblack", <<1>>), U64(10))
RedNoWager == RouletteBet(BetType("Redblack", <<0>>), U64(0))
BlackMax   == RouletteBet(BetType("Redblack", <<1>>), U64Max)
BadCorner  == RouletteBet(BetType("Corner", <<3, 4, 6, 7>>), U64(10))
BadCorner0 == RouletteBet(BetType("Corner", <<3, 4, 6, 7>>), U64(0))
Descending == RouletteBet(BetType("Split", <<2, 1>>), U64(10))

\* the batches a caller hands to spin in the model
Batches ==
    { <<>>,
      <<Straight1>>,
      <<Straight1, Red>>,
      <<Black>>,
      <<Straight1, BadCorner>>,
      <<RedNoWager>>,
      <<BadCorner0, Descending>>,
      <<BlackMax>> }

\* a panic, in validate_bets or in calculate_winnings, ends the process
Spin(bs) ==
    /\ outcome # "panic"
    /\ bets' = bs
    /\ LET v == validate_bets(bs, min_bet_size, overflow_checks)
       IN  IF v.panic
           THEN /\ outcome' = "panic"
                /\ number' = NoNumber
                /\ results' = <<>>
                /\ errors' = <<>>
                /\ UNCHANGED <<history, returned>>
           ELSE IF Len(v.errors) # 0
           THEN /\ outcome' = "err"
                /\ errors' = v.errors
                /\ number' = NoNumber
                /\ results' = <<>>
                /\ UNCHANGED <<history, returned>>
           ELSE \E n \in gen_range(0, 36) :
                LET w == calculate_winnings(n, get_number_colour(n), bs,
                                            overflow_checks)
                IN  /\ history' = Append(history, n)
                    /\ errors' = <<>>
                    /\ IF w.panic
                       THEN /\ outcome' = "panic"
                            /\ number' = NoNumber
                            /\ results' = <<>>
                            /\ UNCHANGED returned
                       ELSE /\ outcome' = "ok"
                            /\ number' = n
                            /\ results' = w.results
                            /\ returned' = Append(returned, n)
    /\ UNCHANGED <<min_bet_size, overflow_checks>>
    /\ UNCHANGED <<geometry_vars, validate_vars, eval_vars>>

NoBet == BetType("Straight", <<0>>)

\* Roulette::new, in either build
Init ==
    /\ overflow_checks \in BOOLEAN
    /\ history = <<>>
    /\ min_bet_size = U64(1)
    /\ bets = <<>>
    /\ outcome = "none"
    /\ number = NoNumber
    /\ results = <<>>
    /\ errors = <<>>
    /\ returned = <<>>
    /\ g_bet = NoBet
    /\ g_verdict = "none"
    /\ v_bets = <<>>
    /\ v_result = "none"
    /\ EvalIdle

Next == \E bs \in Batches : Len(history) < MaxSpins /\ Spin(bs)

Spec == Init /\ [][Next]_vars

----------------------------------------------------------------------------
(* validate_bet_option as a pure function of a bet type, over the inputs   *)
(* GeomInputs                                                              *)

Arr3(s, d1, d2) == <<s, Wrap8(s + d1), Wrap8(s + d1 + d2)>>

Arr4(s, d1, d2, d3) ==
    <<s, Wrap8(s + d1), Wrap8(s + d1 + d2), Wrap8(s + d1 + d2 + d3)>>

Arr6(s, d1, d2, g, d4, d5) ==
    <<s, Wrap8(s + d1), Wrap8(s + d1 + d2), Wrap8(s + d1 + d2 + g),
      Wrap8(s + d1 + d2 + g + d4), Wrap8(s + d1 + d2 + g + d4 + d5)>>

ScalarCats == {"Straight", "Dozens", "Columns", "EvenOdd", "Highlow", "Redblack"}

\* a fresh engine, about to ask validate_bet_option about bt
GeomStart(bt) ==
    /\ overflow_checks \in BOOLEAN
    /\ history = <<>>
    /\ min_bet_size = U64(1)
    /\ bets = <<>>
    /\ outcome = "none"
    /\ number = NoNumber
    /\ results = <<>>
    /\ errors = <<>>
    /\ returned = <<>>
    /\ g_bet = bt
    /\ g_verdict = "none"
    /\ v_bets = <<>>
    /\ v_result = "none"
    /\ EvalIdle

InitGeom ==
    \/ \E c \in ScalarCats, a \in U8 : GeomStart(BetType(c, <<a>>))
    \/ \E a \in U8, b \in U8 : GeomStart(BetType("Split", <<a, b>>))
    \/ \E c \in {"Street", "Basket"}, s \in NumDom, d1 \in Deltas, d2 \in Deltas :
            GeomStart(BetType(c, Arr3(s, d1, d2)))
    \/ \E c \in {"Topline", "Corner"}, s \in NumDom,
          d1 \in Deltas, d2 \in Deltas, d3 \in Deltas :
            GeomStart(BetType(c, Arr4(s, d1, d2, d3)))
    \/ \E s \in 0..MaxNum, d1 \in DblDeltas, d2 \in DblDeltas, g \in Gaps,
          d4 \in DblDeltas, d5 \in DblDeltas :
            GeomStart(BetType("Doubleline", Arr6(s, d1, d2, g, d4, d5)))

CheckOption ==
    /\ g_verdict = "none"
    /\ g_verdict' = validate_bet_option(g_bet, overflow_checks)
    /\ UNCHANGED <<g_bet, overflow_checks>>
    /\ UNCHANGED <<engine_vars, validate_vars, eval_vars>>

NextGeom == CheckOption

SpecGeom == InitGeom /\ [][NextGeom]_vars

----------------------------------------------------------------------------
(* validate_bets as a pure function of a batch, on a fresh engine *)

MaxBatch == 3

ValidatePool ==
    { Straight1, RedNoWager, BlackMax, BadCorner, BadCorner0, Descending }

InitValidate ==
    /\ overflow_checks \in BOOLEAN
    /\ history = <<>>
    /\ min_bet_size = U64(1)
    /\ bets = <<>>
    /\ outcome = "none"
    /\ number = NoNumber
    /\ results = <<>>
    /\ errors = <<>>
    /\ returned = <<>>
    /\ g_bet = NoBet
    /\ g_verdict = "none"
    /\ \E k \in 0..MaxBatch : v_bets \in [1..k -> ValidatePool]
    /\ v_result = "none"
    /\ EvalIdle

CheckBets ==
    /\ v_result = "none"
    /\ LET v == validate_bets(v_bets, min_bet_size, overflow_checks)
       IN  /\ v_result' = IF v.panic THEN "panic"
                          ELSE IF Len(v.errors) = 0 THEN "ok" ELSE "err"
           /\ errors' = IF v.panic THEN <<>> ELSE v.errors
    /\ UNCHANGED <<v_bets, overflow_checks, geometry_vars, eval_vars>>
    /\ UNCHANGED <<history, min_bet_size, bets, outcome, number, results,
                   returned>>

NextValidate == CheckBets

SpecValidate == InitValidate /\ [][NextValidate]_vars

----------------------------------------------------------------------------
(* validate_bets as a pure function of one bet of legal geometry and its   *)
(* wager, on a fresh engine: Roulette::new sets min_bet_size to 1 and       *)
(* nothing assigns it afterwards                                            *)

MaxWager == 6

FloorTypes ==
    { BetType("Straight", <<36>>), BetType("Split", <<1, 2>>),
      BetType("Street", <<4, 5, 6>>), BetType("Basket", <<0, 2, 3>>),
      BetType("Topline", <<0, 1, 2, 3>>), BetType("Corner", <<1, 2, 4, 5>>),
      BetType("Doubleline", <<1, 2, 3, 4, 5, 6>>), BetType("Dozens", <<3>>),
      BetType("Columns", <<1>>), BetType("EvenOdd", <<1>>),
      BetType("Highlow", <<0>>), BetType("Redblack", <<1>>) }

InitFloor ==
    /\ overflow_checks \in BOOLEAN
    /\ history = <<>>
    /\ min_bet_size = U64(1)
    /\ bets = <<>>
    /\ outcome = "none"
    /\ number = NoNumber
    /\ results = <<>>
    /\ errors = <<>>
    /\ returned = <<>>
    /\ g_bet = NoBet
    /\ g_verdict = "none"
    /\ \E bt \in FloorTypes, w \in 0..MaxWager :
           v_bets = <<RouletteBet(bt, U64(w))>>
    /\ v_result = "none"
    /\ EvalIdle

SpecFloor == InitFloor /\ [][NextValidate]_vars

----------------------------------------------------------------------------
(* calculate_winnings as a pure function of the winning number, the colour *)
(* and a batch of bets that validate_bets accepts                          *)

MaxEvalBets == 2

\* 2^63
U64Half == <<0, 0, 0, LimbBase \div 2>>

EvalWagers == {U64(10), U64Half, U64Max}

EvalPool == {Straight1, Red, BlackMax}

\* validate_bets accepts the batch bs
Accepted(bs) ==
    LET v == validate_bets(bs, U64(1), overflow_checks)
    IN  ~v.panic /\ Len(v.errors) = 0

\* a fresh engine, about to evaluate the accepted bets bs, for each winning
\* number and each colour
EvalStart(bs) ==
    /\ Accepted(bs)
    /\ history = <<>>
    /\ min_bet_size = U64(1)
    /\ bets = <<>>
    /\ outcome = "none"
    /\ number = NoNumber
    /\ results = <<>>
    /\ errors = <<>>
    /\ returned = <<>>
    /\ g_bet = NoBet
    /\ g_verdict = "none"
    /\ v_bets = <<>>
    /\ v_result = "none"
    /\ e_number \in 0..36
    /\ e_colour \in 0..1
    /\ e_bets = bs
    /\ e_status = "none"
    /\ e_results = <<>>

\* one bet of type bt, for each wager
EvalOne(bt) ==
    \E w \in EvalWagers : EvalStart(<<RouletteBet(bt, w)>>)

InitEval ==
    /\ overflow_checks \in BOOLEAN
    /\ \/ \E k \in 0..MaxEvalBets : \E bs \in [1..k -> EvalPool] :
                EvalStart(bs)
       \/ \E cat \in ScalarCats, a \in 0..MaxNum :
                EvalOne(BetType(cat, <<a>>))
       \/ \E a \in 0..MaxNum, b \in 0..MaxNum :
                EvalOne(BetType("Split", <<a, b>>))
       \/ \E cat \in {"Street", "Basket"}, s \in 0..MaxNum,
             d1 \in 1..2, d2 \in 1..2 :
                EvalOne(BetType(cat, Arr3(s, d1, d2)))
       \/ \E cat \in {"Topline", "Corner"}, s \in 0..MaxNum, d2 \in 1..2 :
                EvalOne(BetType(cat, Arr4(s, 1, d2, 1)))
       \/ \E s \in 0..MaxNum, g \in Gaps :
                EvalOne(BetType("Doubleline", Arr6(s, 1, 1, g, 1, 1)))

Evaluate ==
    /\ e_status = "none"
    /\ LET w == calculate_winnings(e_number, e_colour, e_bets, overflow_checks)
       IN  /\ e_status' = IF w.panic THEN "panic" ELSE "ok"
           /\ e_results' = IF w.panic THEN <<>> ELSE w.results
    /\ UNCHANGED <<e_number, e_colour, e_bets, overflow_checks>>
    /\ UNCHANGED <<engine_vars, geometry_vars, validate_vars>>

NextEval == Evaluate

SpecEval == InitEval /\ [][NextEval]_vars

----------------------------------------------------------------------------
(* The spin engine: claims C1 to C4 *)

\* a spin can be called
CanSpin == outcome # "panic" /\ Len(history) < MaxSpins

\* C1: the winning number a successful spin returns is in 0..36, and each of
\* the 37 numbers 0..36, 36 included, is a possible outcome of the draw.
C1_EveryTableNumberCanWin ==
    /\ outcome = "ok" => number \in 0..36
    /\ CanSpin => \A n \in 0..36 : ENABLED (Spin(<<>>) /\ number' = n)

\* the minimum wager of the bet's category: the floor times its multiplier
MinimumFor(bet) == Mul64(min_bet_size, min_bet_for_option(bet.bet_type)).value

\* the validator answers that the bet's geometry is illegal, or answers that
\* it is legal and the wager is below the minimum
Offends(bet) ==
    \/ validate_bet_option(bet.bet_type, overflow_checks) = "F"
    \/ /\ validate_bet_option(bet.bet_type, overflow_checks) = "T"
       /\ Lt64(bet.wager, MinimumFor(bet))

\* C2: a spin of a batch with at least one bet that fails validation returns
\* the error list, draws no number, evaluates no bet and leaves history and
\* the minimum-bet floor as they were.
C2_FailingBatchOnlyReturnsErrors ==
    [][(\E i \in 1..Len(bets') : Offends(bets'[i]))
          => /\ outcome' = "err"
             /\ Len(errors') > 0
             /\ number' = NoNumber
             /\ results' = <<>>
             /\ history' = history
             /\ min_bet_size' = min_bet_size]_vars

ExpectedError(bet) ==
    IF validate_bet_option(bet.bet_type, overflow_checks) = "F"
    THEN [kind |-> "InvalidBetOption", bet |-> bet]
    ELSE [kind |-> "MinBetNotSatisfied", bet |-> bet, min |-> MinimumFor(bet)]

ExpectedErrors(bs) ==
    LET off == SelectSeq(bs, Offends)
    IN  [i \in 1..Len(off) |-> ExpectedError(off[i])]

\* C3: the failure validation returns holds exactly one error per offending
\* bet and none for a valid bet, in the order of the bets: an invalid-geometry
\* error naming a bet of illegal geometry whatever its wager, a below-minimum
\* error naming a geometry-legal bet whose wager is too small.
C3_ErrorsAreAggregatedInOrder ==
    v_result \in {"ok", "err"} =>
        /\ errors = ExpectedErrors(v_bets)
        /\ v_result = "err" <=> \E i \in 1..Len(v_bets) : Offends(v_bets[i])

\* a batch of a valid bet and two offending ones got two errors: the first for
\* an illegal geometry with wager 0, the second for a wager below the minimum
C3_Witness ==
    /\ v_result = "err"
    /\ v_bets = <<Straight1, BadCorner0, RedNoWager>>
    /\ errors = << [kind |-> "InvalidBetOption", bet |-> BadCorner0],
                   [kind |-> "MinBetNotSatisfied", bet |-> RedNoWager,
                    min |-> U64(1)] >>

\* C4: history is the sequence of the numbers the successful spins returned,
\* in call order: a successful spin appends the number it returns at the end,
\* and no spin removes or changes an earlier entry.
C4_HistoryIsTheReturnedNumbers ==
    /\ [](history = returned)
    /\ [][IF outcome' = "ok"
          THEN history' = Append(history, number')
          ELSE history' = history]_vars

----------------------------------------------------------------------------
(* The geometry validator: claims C5 to C10 *)

Asked(c) == g_bet.cat = c /\ g_verdict # "none"

\* C5: validate_bet_option is total: for every category and every u8
\* parameter values, unsorted and descending arrays included, it answers true
\* or false and never fails at run time.
C5_ValidatorNeverFails == g_verdict \in {"none", "T", "F"}

\* the pairs claim C6 calls legal
SplitLegal(a, b) ==
    /\ a < b
    /\ a <= 36
    /\ b <= 36
    /\ \/ a = 0 /\ b \in {1, 2, 3}
       \/ a >= 1 /\ b - a = 3
       \/ a >= 1 /\ b - a = 1 /\ a % 3 # 0

\* C6: Split([a,b]) is judged legal exactly when a < b, both are at most 36,
\* and a = 0 with b in 1..3, or a >= 1 and b - a = 3, or a >= 1, b - a = 1
\* and a is no multiple of 3; every other pair is illegal.
C6_SplitLegalIffNeighbours ==
    Asked("Split") => (g_verdict = "T" <=> SplitLegal(g_bet.v[1], g_bet.v[2]))

\* C7 as amended: Split([34,35]), Split([35,36]) and Split([33,36]) are legal.
C7_BottomSplitsAreLegal ==
    (Asked("Split") /\ g_bet.v \in {<<34, 35>>, <<35, 36>>, <<33, 36>>})
        => g_verdict = "T"

\* C7: Split([34,35]) and Split([35,36]) are legal and Split([33,36]) is
\* illegal.
C7_AsClaimed ==
    /\ (Asked("Split") /\ g_bet.v \in {<<34, 35>>, <<35, 36>>})
            => g_verdict = "T"
    /\ (Asked("Split") /\ g_bet.v = <<33, 36>>) => g_verdict = "F"

\* the validator has judged Split([33,36]) legal
C7_Witness == Asked("Split") /\ g_bet.v = <<33, 36>> /\ g_verdict = "T"

\* six contiguous numbers from the first number of a row, 1 <= n <= 31
DoublelineLegal(v) ==
    \E n \in 1..31 :
        /\ (n - 1) % 3 = 0
        /\ v = <<n, n + 1, n + 2, n + 3, n + 4, n + 5>>

\* C8: Doubleline is judged legal exactly when its six numbers are contiguous
\* n..n+5 with n the first number of a row and 1 <= n <= 31; two valid
\* streets that are not adjacent or not ascending are illegal.
C8_DoublelineLegalIffAdjacentStreets ==
    Asked("Doubleline") => (g_verdict = "T" <=> DoublelineLegal(g_bet.v))

\* n, n+1, n+3, n+4 for an n >= 1 that is no multiple of 3
CornerBlock(v) ==
    \E n \in 1..U8Max :
        /\ n % 3 # 0
        /\ v = <<n, n + 1, n + 3, n + 4>>

\* C9: Corner is judged legal exactly when its numbers are n, n+1, n+3, n+4
\* for some n >= 1 that is not a right-column number (n mod 3 # 0).
C9_CornerLegalIffBlock ==
    Asked("Corner") => (g_verdict = "T" <=> CornerBlock(g_bet.v))

\* n, n+1, n+2 from the first number n of a row, 1 <= n <= 34
StreetRow(v) ==
    \E n \in 1..34 :
        /\ (n - 1) % 3 = 0
        /\ v = <<n, n + 1, n + 2>>

\* C10: Street([n,n+1,n+2]) is legal for every n in 1..34 with
\* (n-1) mod 3 = 0 and illegal for every other n in 1..34; a Street is legal
\* only if its numbers are consecutive ascending from the first of a row.
C10_StreetLegalIffRow ==
    Asked("Street") =>
        /\ g_verdict = "T" <=> StreetRow(g_bet.v)
        /\ \A n \in 1..34 :
              (g_bet.v = <<n, n + 1, n + 2>> /\ (n - 1) % 3 # 0)
                  => g_verdict = "F"

\* the validator has judged the last row, Street([34,35,36]), legal
C10_Witness == Asked("Street") /\ g_bet.v = <<34, 35, 36>> /\ g_verdict = "T"

----------------------------------------------------------------------------
(* The fixed-list categories: claim C11 *)

\* the legal parameters claim C11 lists for each fixed-list category
FixedList(bt) ==
    CASE bt.cat = "Straight" -> bt.v[1] <= 36
      [] bt.cat = "Basket"   -> bt.v \in {<<0, 1, 2>>, <<0, 2, 3>>}
      [] bt.cat = "Topline"  -> bt.v = <<0, 1, 2, 3>>
      [] bt.cat \in {"Dozens", "Columns"} -> bt.v[1] \in {1, 2, 3}
      [] bt.cat \in {"EvenOdd", "Highlow", "Redblack"} -> bt.v[1] \in {0, 1}

FixedCats ==
    {"Straight", "Basket", "Topline", "Dozens", "Columns", "EvenOdd",
     "Highlow", "Redblack"}

\* C11: for the categories with a fixed list of legal parameters,
\* validate_bet_option answers true exactly on the list and false on every
\* other u8 value: Straight(n) iff n <= 36, Basket iff [0,1,2] or [0,2,3],
\* Topline iff [0,1,2,3], Dozens and Columns iff 1..3, EvenOdd, Highlow and
\* Redblack iff 0..1.
C11_FixedListsAreExact ==
    (g_bet.cat \in FixedCats /\ g_verdict # "none") =>
        g_verdict = IF FixedList(g_bet) THEN "T" ELSE "F"

\* the validator has judged the second basket, [0,2,3], legal
C11_Witness == Asked("Basket") /\ g_bet.v = <<0, 2, 3>> /\ g_verdict = "T"

----------------------------------------------------------------------------
(* The payout evaluator: claims C12 to C17 and C20 *)

Evaluated == e_status # "none" /\ e_status # "idle"

\* the i-th bet was paid exactly k times its wager
Pays(i, k) ==
    /\ e_status = "ok"
    /\ ~Mul64(e_bets[i].wager, k).overflow
    /\ e_results[i].win = Mul64(e_bets[i].wager, k).value

\* the i-th bet was paid 0
PaysNothing(i) == e_status = "ok" /\ e_results[i].win = U64(0)

\* the i-th bet was paid k times its wager if it was to win, 0 if not
PaidAsClaimed(i, wins, k) == IF wins THEN Pays(i, k) ELSE PaysNothing(i)

\* the bets of category c among those evaluated
BetsOf(c) == {i \in 1..Len(e_bets) : e_bets[i].bet_type.cat = c}

\* C12: an EvenOdd(v) bet pays 2 x wager exactly when the winning number is
\* not 0 and winning_number mod 2 = v, and 0 otherwise; every EvenOdd bet
\* loses on 0.
C12_EvenOddLosesOnZero ==
    Evaluated => \A i \in BetsOf("EvenOdd") :
        PaidAsClaimed(i, e_number # 0 /\ e_number % 2 = e_bets[i].bet_type.v[1], 2)

\* the even/odd rule alone, for wagers whose payout fits: the bet is paid
\* exactly when winning_number mod 2 = v, 0 included
EvenOddAsCoded ==
    (Evaluated /\ e_status = "ok") => \A i \in BetsOf("EvenOdd") :
        e_bets[i].wager = U64(10) =>
            PaidAsClaimed(i, e_number % 2 = e_bets[i].bet_type.v[1], 2)

\* red for exactly 18 of the numbers 1..36, black for the other 18, none for 0
NoColour == 0 - 1

ClaimedColour(n) ==
    IF n = 0 THEN NoColour
    ELSE IF n \in {1, 3, 5, 7, 9, 12, 14, 16, 18, 19, 21, 23, 25, 27, 30, 32,
                   34, 36}
    THEN 0 ELSE 1

\* C13: in a round played through spin, a Redblack(v) bet pays 2 x wager
\* exactly when v is the colour of the drawn number, the lookup giving red to
\* 18 of the numbers 1..36 and black to the other 18, and 0 having no colour:
\* every Redblack bet pays 0 when the winning number is 0.
C13_RedblackLosesOnZero ==
    /\ Cardinality({n \in 1..36 : get_number_colour(n) = 0}) = 18
    /\ Cardinality({n \in 1..36 : get_number_colour(n) = 1}) = 18
    /\ outcome = "ok" =>
          \A i \in 1..Len(bets) : bets[i].bet_type.cat = "Redblack" =>
              results[i].win =
                  IF bets[i].bet_type.v[1] = ClaimedColour(number)
                  THEN Mul64(bets[i].wager, 2).value
                  ELSE U64(0)

\* C14: a Highlow(v) bet pays 2 x wager exactly when v = 0 and the winning
\* number is in 1..18, or v = 1 and the winning number is in 19..36, and 0
\* otherwise, in particular on 0.
C14_HighlowHalves ==
    Evaluated => \A i \in BetsOf("Highlow") :
        PaidAsClaimed(i,
            \/ e_bets[i].bet_type.v[1] = 0 /\ e_number \in 1..18
            \/ e_bets[i].bet_type.v[1] = 1 /\ e_number \in 19..36,
            2)

\* the high/low rule alone, for wagers whose payout fits
HighlowWithoutOverflow ==
    (Evaluated /\ e_status = "ok") => \A i \in BetsOf("Highlow") :
        e_bets[i].wager = U64(10) =>
            PaidAsClaimed(i,
                \/ e_bets[i].bet_type.v[1] = 0 /\ e_number \in 1..18
                \/ e_bets[i].bet_type.v[1] = 1 /\ e_number \in 19..36,
                2)

\* C15: a Dozens(g) bet pays 3 x wager exactly when the winning number is in
\* (g-1)*12+1 .. g*12, a Columns(c) bet pays 3 x wager exactly when the
\* winning number is one of c, c+3, c+6, ... up to 36; both pay 0 otherwise,
\* in particular on 0.
C15_DozensAndColumns ==
    Evaluated =>
        /\ \A i \in BetsOf("Dozens") :
              LET g == e_bets[i].bet_type.v[1]
              IN  PaidAsClaimed(i, e_number \in ((g - 1) * 12 + 1)..(g * 12), 3)
        /\ \A i \in BetsOf("Columns") :
              LET c == e_bets[i].bet_type.v[1]
              IN  PaidAsClaimed(i,
                      e_number \in {c + 3 * k : k \in 0..11} /\ e_number <= 36, 3)

\* the dozens and columns rules alone, for wagers whose payout fits
DozensAndColumnsWithoutOverflow ==
    (Evaluated /\ e_status = "ok") =>
        /\ \A i \in BetsOf("Dozens") :
              LET g == e_bets[i].bet_type.v[1]
              IN  e_bets[i].wager = U64(10) =>
                  PaidAsClaimed(i, e_number \in ((g - 1) * 12 + 1)..(g * 12), 3)
        /\ \A i \in BetsOf("Columns") :
              LET c == e_bets[i].bet_type.v[1]
              IN  e_bets[i].wager = U64(10) =>
                  PaidAsClaimed(i,
                      e_number \in {c + 3 * k : k \in 0..11} /\ e_number <= 36, 3)

\* the multiplier claim C16 gives for each number-set category
ClaimedMultiplier(c) ==
    CASE c = "Straight"   -> 36
      [] c = "Split"      -> 18
      [] c = "Street"     -> 12
      [] c = "Basket"     -> 12
      [] c = "Topline"    -> 9
      [] c = "Corner"     -> 9
      [] c = "Doubleline" -> 6

NumberSetCats ==
    {"Straight", "Split", "Street", "Basket", "Topline", "Corner", "Doubleline"}

\* the numbers a number-set bet covers
Covered(bt) == {bt.v[j] : j \in 1..Len(bt.v)}

\* C16: a Straight, Split, Street, Basket, Topline, Corner or Doubleline bet
\* pays wager x its category's multiplier (36, 18, 12, 12, 9, 9, 6) exactly
\* when the winning number is one of the numbers it covers, and 0 otherwise.
C16_NumberSetsPayByCategory ==
    Evaluated => \A c \in NumberSetCats : \A i \in BetsOf(c) :
        PaidAsClaimed(i, e_number \in Covered(e_bets[i].bet_type),
                      ClaimedMultiplier(c))

\* the number-set rule alone, for wagers whose payout fits
NumberSetsWithoutOverflow ==
    (Evaluated /\ e_status = "ok") =>
        \A c \in NumberSetCats : \A i \in BetsOf(c) :
            e_bets[i].wager = U64(10) =>
                PaidAsClaimed(i, e_number \in Covered(e_bets[i].bet_type),
                              ClaimedMultiplier(c))

\* C17: a successful spin returns exactly one result per input bet, in the
\* order of the bets, the i-th result referring to the i-th bet, for any
\* number of bets, zero included; the results are those of the winning
\* number, its colour and the bets alone, whatever the history.
C17_OneResultPerBetInOrder ==
    outcome = "ok" =>
        /\ Len(results) = Len(bets)
        /\ \A i \in 1..Len(bets) : results[i].bet = bets[i]
        /\ \A i \in 1..Len(bets) :
              results[i].win =
                  IF bet_wins(bets[i].bet_type, number,
                              get_number_colour(number), overflow_checks) = "T"
                  THEN Mul64(bets[i].wager, multiplier(bets[i].bet_type)).value
                  ELSE U64(0)

\* the second spin of an engine returned, for two different bets, a win for
\* the first and a loss for the second
C17_Witness ==
    /\ outcome = "ok"
    /\ Len(history) = 2
    /\ bets = <<Straight1, Red>>
    /\ number = 1
    /\ history[1] = 2
    /\ results = << [bet |-> Straight1, win |-> U64(360)],
                    [bet |-> Red, win |-> U64(20)] >>

----------------------------------------------------------------------------
(* The minimum bet: claim C18 *)

\* C18: for a bet of legal geometry, validation accepts the wager exactly
\* when wager >= floor x per-category multiplier, and otherwise reports a
\* below-minimum error carrying that product; this for every value the
\* floor of an engine takes (the floor is 1 and every per-category
\* multiplier is 1, so a wager of 0 is rejected and every wager >= 1 is
\* accepted).
C18_WagerAtLeastFloorTimesMultiplier ==
    (v_result # "none" /\ Len(v_bets) = 1 /\ v_bets[1].bet_type \in FloorTypes) =>
        LET bet == v_bets[1]
            min == Mul64(min_bet_size, min_bet_for_option(bet.bet_type)).value
        IN  IF Le64(min, bet.wager)
            THEN v_result = "ok" /\ errors = <<>>
            ELSE /\ v_result = "err"
                 /\ errors = << [kind |-> "MinBetNotSatisfied", bet |-> bet,
                                 min |-> min] >>

\* a bet of legal geometry with wager 0 was rejected with the minimum 1
C18_Witness ==
    /\ v_result = "err"
    /\ Len(v_bets) = 1
    /\ v_bets[1].bet_type \in FloorTypes
    /\ v_bets[1].wager = U64(0)
    /\ errors = << [kind |-> "MinBetNotSatisfied", bet |-> v_bets[1],
                    min |-> U64(1)] >>

----------------------------------------------------------------------------
(* Off-table numbers and overflowing payouts: claims C19 and C20 *)

\* C19: every Split, Street, Basket, Topline, Corner or Doubleline that
\* validate_bet_option judges legal covers only table numbers: none that
\* contains a number greater than 36 is judged legal.
C19_LegalBetsCoverTableNumbers ==
    (g_bet.cat \in (NumberSetCats \ {"Straight"}) /\ g_verdict = "T") =>
        \A j \in 1..Len(g_bet.v) : g_bet.v[j] <= 36

\* C20: for every bet that spin accepts, the payout of a winning bet is the
\* exact product wager x multiplier: the multiplication in win_value never
\* overflows, wraps around or fails.
C20_PayoutIsTheExactProduct ==
    Evaluated =>
        /\ e_status = "ok"
        /\ \A i \in 1..Len(e_bets) :
              bet_wins(e_bets[i].bet_type, e_number, e_colour,
                       overflow_checks) = "T" =>
                  Pays(i, multiplier(e_bets[i].bet_type))

====
